---------------------------- MODULE Spec2Model ----------------------------
(***************************************************************************)
(* A state-machine model of bin/LiCSBAS_disp_img.py: one run of the script *)
(* from the command line to the terminal output action.                    *)
(*                                                                         *)
(* Numbers.  A Python float is modelled as a fixed-point number: the float *)
(* x is the integer x * Scale, rounded towards minus infinity.  A float    *)
(* value of the program is Num(v), NaN or None (tagged tuples).            *)
(* Text is a TLA+ string; SubSeq, Len and \o act on it character-wise.     *)
(***************************************************************************)
EXTENDS Integers, Sequences, FiniteSets, TLC

VARIABLES
    argv,        \* sys.argv[1:], a sequence of strings
    parText,     \* contents of the file named par.txt: a sequence of lines
    imgFile,     \* samples stored in the file named img.bin
    pc,          \* position of the script
    infile, parfile, cmap, cmin, cmax, auto_crange, cycle, endian, pngname,
    width, length,
    widthKey, lengthKey,  \* grep pattern whose output gave width / length
    data,        \* the loaded raster, row-major
    raw,         \* the raster as loaded, before the phase-wrap
    pctCalls,    \* the q arguments of the np.nanpercentile calls made
    figure,      \* what plt.imshow was given
    stdout, stderr, saved, shown,
    exitCode,    \* <<>> while running, <<status>> once the process ended
    exitAt       \* the position at which the run was cut short, "" if none

vars == <<argv, parText, imgFile, pc, infile, parfile, cmap, cmin, cmax,
          auto_crange, cycle, endian, pngname, width, length, widthKey,
          lengthKey, data, raw, pctCalls, figure, stdout, stderr, saved,
          shown, exitCode, exitAt>>

(***************************************************************************)
(* Bounds of the model.                                                    *)
(***************************************************************************)
Scale == 100        \* fixed-point resolution: 1.0 is Scale
MaxLines == 4       \* lines of a parameter file
MaxSamples == 3     \* samples of an image file

(***************************************************************************)
(* Program constants.                                                      *)
(***************************************************************************)
DefaultAutoCrange == 99
DefaultCycle == 3
ExitOk == 0
ExitUsage == 2
ExitTraceback == 1  \* the interpreter's status for an uncaught exception

None == <<"None">>
NaN == <<"nan">>
Num(v) == <<"num", v>>
IsNum(f) == f[1] = "num"
Val(f) == f[2]

\* np.pi, to the resolution of the model
Pi == (314 * Scale) \div 100

(***************************************************************************)
(* Text helpers (str methods).                                             *)
(***************************************************************************)
Char(s, i) == SubSeq(s, i, i)

StartsWith(s, p) == Len(s) >= Len(p) /\ SubSeq(s, 1, Len(p)) = p

EndsWith(s, p) ==
    Len(s) >= Len(p) /\ SubSeq(s, Len(s) - Len(p) + 1, Len(s)) = p

\* `p in s`: grep's fixed-pattern match of p inside one line's token
Contains(s, p) ==
    \E i \in 1..(Len(s) - Len(p) + 1) : SubSeq(s, i, i + Len(p) - 1) = p

\* position of the first c in s, 0 when there is none
IndexOf(s, c) ==
    IF \E i \in 1..Len(s) : Char(s, i) = c
    THEN CHOOSE i \in 1..Len(s) :
            Char(s, i) = c /\ \A j \in 1..(i - 1) : Char(s, j) # c
    ELSE 0

Digits == {"0", "1", "2", "3", "4", "5", "6", "7", "8", "9"}

DigitVal(c) ==
    CASE c = "0" -> 0 [] c = "1" -> 1 [] c = "2" -> 2 [] c = "3" -> 3
      [] c = "4" -> 4 [] c = "5" -> 5 [] c = "6" -> 6 [] c = "7" -> 7
      [] c = "8" -> 8 [] c = "9" -> 9

AllDigits(s) == \A i \in 1..Len(s) : Char(s, i) \in Digits

RECURSIVE DigitsVal(_)
DigitsVal(s) ==
    IF s = "" THEN 0
    ELSE 10 * DigitsVal(SubSeq(s, 1, Len(s) - 1)) + DigitVal(Char(s, Len(s)))

RECURSIVE Pow10(_)
Pow10(n) == IF n = 0 THEN 1 ELSE 10 * Pow10(n - 1)

Unsigned(s) ==
    IF s # "" /\ Char(s, 1) \in {"+", "-"} THEN SubSeq(s, 2, Len(s)) ELSE s

Sign(s) == IF s # "" /\ Char(s, 1) = "-" THEN -1 ELSE 1

ValueError == <<"ValueError">>

\* int(s) for a token s: an optionally signed run of decimal digits
ParseInt(s) ==
    LET u == Unsigned(s)
    IN  IF u # "" /\ AllDigits(u) THEN Num(Sign(s) * DigitsVal(u))
        ELSE ValueError

\* float(s) for a token s: optionally signed digits with an optional
\* fraction; the result is in fixed point
ParseFloat(s) ==
    LET u == Unsigned(s)
        dot == IndexOf(u, ".")
        ip == IF dot = 0 THEN u ELSE SubSeq(u, 1, dot - 1)
        fp == IF dot = 0 THEN "" ELSE SubSeq(u, dot + 1, Len(u))
    IN  IF (ip # "" \/ fp # "") /\ AllDigits(ip) /\ AllDigits(fp)
        THEN Num(Sign(s) * (DigitsVal(ip) * Scale
                            + (DigitsVal(fp) * Scale) \div Pow10(Len(fp))))
        ELSE ValueError

(***************************************************************************)
(* getopt.getopt(argv[1:], "hi:p:c:", [...]) of line 75, as the standard   *)
(* library computes it.  The result is [err, opts]: err is "" or the       *)
(* message of the getopt.error, opts the (option, argument) pairs.         *)
(***************************************************************************)
ShortOpts == "hi:p:c:"
LongOpts ==
    <<"help", "cmin=", "cmax=", "auto_crange=", "cycle=", "bigendian", "png=">>

Range(f) == {f[i] : i \in DOMAIN f}

\* short_has_arg: "yes", "no", or "unknown" (option not recognized)
ShortHasArg(opt) ==
    IF \E i \in 1..Len(ShortOpts) : Char(ShortOpts, i) = opt /\ opt # ":"
    THEN LET i == CHOOSE k \in 1..Len(ShortOpts) : Char(ShortOpts, k) = opt
         IN  IF i < Len(ShortOpts) /\ Char(ShortOpts, i + 1) = ":"
             THEN "yes" ELSE "no"
    ELSE "unknown"

\* do_shorts on the option cluster optstring, with the remaining args
RECURSIVE DoShorts(_, _, _)
DoShorts(opts, optstring, args) ==
    IF optstring = "" THEN [err |-> "", opts |-> opts, args |-> args]
    ELSE LET opt == Char(optstring, 1)
             rest == SubSeq(optstring, 2, Len(optstring))
             has == ShortHasArg(opt)
         IN  CASE has = "unknown" ->
                    [err |-> "option -" \o opt \o " not recognized",
                     opts |-> opts, args |-> args]
               [] has = "no" ->
                    DoShorts(Append(opts, <<"-" \o opt, "">>), rest, args)
               [] has = "yes" ->
                    IF rest # ""
                    THEN [err |-> "", args |-> args,
                          opts |-> Append(opts, <<"-" \o opt, rest>>)]
                    ELSE IF args = <<>>
                    THEN [err |-> "option -" \o opt \o " requires argument",
                          opts |-> opts, args |-> args]
                    ELSE [err |-> "", args |-> Tail(args),
                          opts |-> Append(opts, <<"-" \o opt, Head(args)>>)]

\* long_has_args: [err, has_arg, opt]
LongHasArgs(opt) ==
    LET possibilities == {o \in Range(LongOpts) : StartsWith(o, opt)}
    IN  IF possibilities = {}
        THEN [err |-> "option --" \o opt \o " not recognized",
              has |-> FALSE, opt |-> opt]
        ELSE IF opt \in possibilities
        THEN [err |-> "", has |-> FALSE, opt |-> opt]
        ELSE IF (opt \o "=") \in possibilities
        THEN [err |-> "", has |-> TRUE, opt |-> opt]
        ELSE IF Cardinality(possibilities) > 1
        THEN [err |-> "option --" \o opt \o " not a unique prefix",
              has |-> FALSE, opt |-> opt]
        ELSE LET m == CHOOSE o \in possibilities : TRUE
             IN  IF EndsWith(m, "=")
                 THEN [err |-> "", has |-> TRUE,
                       opt |-> SubSeq(m, 1, Len(m) - 1)]
                 ELSE [err |-> "", has |-> FALSE, opt |-> m]

\* do_longs on the text after "--", with the remaining args
DoLongs(opts, text, args) ==
    LET eq == IndexOf(text, "=")
        name == IF eq = 0 THEN text ELSE SubSeq(text, 1, eq - 1)
        given == eq # 0
        optarg == IF eq = 0 THEN "" ELSE SubSeq(text, eq + 1, Len(text))
        h == LongHasArgs(name)
    IN  IF h.err # "" THEN [err |-> h.err, opts |-> opts, args |-> args]
        ELSE IF h.has /\ ~given /\ args = <<>>
        THEN [err |-> "option --" \o h.opt \o " requires argument",
              opts |-> opts, args |-> args]
        ELSE IF h.has /\ ~given
        THEN [err |-> "", args |-> Tail(args),
              opts |-> Append(opts, <<"--" \o h.opt, Head(args)>>)]
        ELSE IF ~h.has /\ given
        THEN [err |-> "option --" \o h.opt \o " must not have an argument",
              opts |-> opts, args |-> args]
        ELSE [err |-> "", args |-> args,
              opts |-> Append(opts, <<"--" \o h.opt, optarg>>)]

RECURSIVE GetoptFrom(_, _)
GetoptFrom(opts, args) ==
    IF args = <<>> \/ ~StartsWith(Head(args), "-") \/ Head(args) = "-"
       \/ Head(args) = "--"
    THEN [err |-> "", opts |-> opts]
    ELSE LET r == IF StartsWith(Head(args), "--")
                  THEN DoLongs(opts, SubSeq(Head(args), 3, Len(Head(args))),
                               Tail(args))
                  ELSE DoShorts(opts,
                                SubSeq(Head(args), 2, Len(Head(args))),
                                Tail(args))
         IN  IF r.err # "" THEN [err |-> r.err, opts |-> opts]
             ELSE GetoptFrom(r.opts, r.args)

Getopt(args) == GetoptFrom(<<>>, args)

(***************************************************************************)
(* The environment of a run: the files that exist.                         *)
(***************************************************************************)
ImgPath == "img.bin"
ParPath == "par.txt"

\* os.path.exists
Exists(path) == path \in {ImgPath, ParPath}

(***************************************************************************)
(* Read options (lines 73-114).                                            *)
(***************************************************************************)
\* the defaults of lines 61-69; the empty list of lines 61, 62, 69 is ""
\* (both are false under `not`)
Defaults ==
    [infile |-> "", parfile |-> "", cmap |-> "SCM5.roma_r", cmin |-> None,
     cmax |-> None, auto_crange |-> Num(DefaultAutoCrange * Scale),
     cycle |-> Num(DefaultCycle * Scale), endian |-> "little",
     pngname |-> ""]

\* one float(a) assignment of the option loop
SetFloat(c, field, a) ==
    IF ParseFloat(a) = ValueError
    THEN [status |-> "ValueError", cfg |-> c]
    ELSE [status |-> "ok", cfg |-> [c EXCEPT ![field] = ParseFloat(a)]]

\* the body of the loop of lines 78-99 for one (o, a)
OptStep(c, o, a) ==
    CASE o \in {"-h", "--help"} -> [status |-> "help", cfg |-> c]
      [] o = "-i" -> [status |-> "ok", cfg |-> [c EXCEPT !.infile = a]]
      [] o = "-p" -> [status |-> "ok", cfg |-> [c EXCEPT !.parfile = a]]
      [] o = "-c" -> [status |-> "ok", cfg |-> [c EXCEPT !.cmap = a]]
      [] o = "--cmin" -> SetFloat(c, "cmin", a)
      [] o = "--cmax" -> SetFloat(c, "cmax", a)
      [] o = "--auto_crange" -> SetFloat(c, "auto_crange", a)
      [] o = "--cycle" -> SetFloat(c, "cycle", a)
      [] o = "--bigendian" ->
            [status |-> "ok", cfg |-> [c EXCEPT !.endian = "big"]]
      [] o = "--png" -> [status |-> "ok", cfg |-> [c EXCEPT !.pngname = a]]
      [] OTHER -> [status |-> "ok", cfg |-> c]

\* the loop of lines 78-99: stops at the first sys.exit(0) or exception
RECURSIVE OptLoop(_, _)
OptLoop(c, opts) ==
    IF opts = <<>> THEN [status |-> "ok", cfg |-> c]
    ELSE LET r == OptStep(c, Head(opts)[1], Head(opts)[2])
         IN  IF r.status = "ok" THEN OptLoop(r.cfg, Tail(opts)) ELSE r

\* the checks of lines 101-108: the message of the Usage raised, or ""
FileChecks(c) ==
    IF c.infile = "" THEN "No image file given, -i is not optional!"
    ELSE IF ~Exists(c.infile) THEN "No " \o c.infile \o " exists!"
    ELSE IF c.parfile = "" THEN "No par file given, -p is not optional!"
    ELSE IF ~Exists(c.parfile) THEN "No " \o c.parfile \o " exists!"
    ELSE ""

\* what the handler of lines 110-113 prints for Usage(msg)
UsageReport(msg) ==
    <<"\nERROR:", "  " \o msg, "\nFor help, use -h or --help.\n">>

HelpText == "__doc__"
Traceback(exc) == <<"Traceback (most recent call last):", exc>>

\* sys.exit(code), or the interpreter ending on an uncaught exception
Exit(code, out, err) ==
    /\ pc' = "exit"
    /\ exitAt' = pc
    /\ exitCode' = <<code>>
    /\ stdout' = stdout \o out
    /\ stderr' = stderr \o err

SetConfig(c) ==
    /\ infile' = c.infile
    /\ parfile' = c.parfile
    /\ cmap' = c.cmap
    /\ cmin' = c.cmin
    /\ cmax' = c.cmax
    /\ auto_crange' = c.auto_crange
    /\ cycle' = c.cycle
    /\ endian' = c.endian
    /\ pngname' = c.pngname

ReadOptions ==
    /\ pc = "ReadOptions"
    /\ LET g == Getopt(argv)
           r == OptLoop(Defaults, g.opts)
       IN  IF g.err # ""
           THEN /\ Exit(ExitUsage, <<>>, UsageReport(g.err))
                /\ SetConfig(Defaults)
           ELSE /\ SetConfig(r.cfg)
                /\ CASE r.status = "help" -> Exit(ExitOk, <<HelpText>>, <<>>)
                     [] r.status = "ValueError" ->
                            Exit(ExitTraceback, <<>>, Traceback("ValueError"))
                     [] FileChecks(r.cfg) # "" ->
                            Exit(ExitUsage, <<>>,
                                 UsageReport(FileChecks(r.cfg)))
                     [] OTHER ->
                            /\ pc' = "SetCmap"
                            /\ UNCHANGED <<exitCode, exitAt, stdout, stderr>>
    /\ UNCHANGED <<argv, parText, imgFile, width, length, widthKey,
                   lengthKey, data, raw, pctCalls, figure, saved, shown>>

(***************************************************************************)
(* Set cmap if SCM5 (lines 117-125).  The exec of line 120 or 122 rebinds  *)
(* cmap to a colormap object of the SCM5 module; the object is the tuple   *)
(* <<"colormap", name, reversed>>, which equals no string.                 *)
(***************************************************************************)
ResolveCmap(name) ==
    IF StartsWith(name, "SCM5")
    THEN IF EndsWith(name, "_r")
         THEN <<"colormap", SubSeq(name, 1, Len(name) - 2), TRUE>>
         ELSE <<"colormap", name, FALSE>>
    ELSE name

SetCmap ==
    /\ pc = "SetCmap"
    /\ cmap' = ResolveCmap(cmap)
    /\ pc' = "GetInfo"
    /\ UNCHANGED <<argv, parText, imgFile, infile, parfile, cmin, cmax,
                   auto_crange, cycle, endian, pngname, width, length,
                   widthKey, lengthKey, data, raw, pctCalls, figure, stdout,
                   stderr, saved, shown, exitCode, exitAt>>

(***************************************************************************)
(* Get info (lines 129-140).                                               *)
(***************************************************************************)
Whitespace == {" ", "\t"}

\* str.split(): the maximal runs of non-whitespace characters
RECURSIVE SplitAcc(_, _, _)
SplitAcc(s, cur, acc) ==
    IF s = "" THEN (IF cur = "" THEN acc ELSE Append(acc, cur))
    ELSE IF Char(s, 1) \in Whitespace
    THEN SplitAcc(SubSeq(s, 2, Len(s)), "",
                  IF cur = "" THEN acc ELSE Append(acc, cur))
    ELSE SplitAcc(SubSeq(s, 2, Len(s)), cur \o Char(s, 1), acc)

Split(s) == SplitAcc(s, "", <<>>)

\* the text of a file, as a sequence of lines
ReadLines(path) == IF path = ParPath THEN parText ELSE <<>>

\* Faulty variant of Grep: only a line whose first token is the key matches.
GrepFirstToken(key, lines) ==
    SelectSeq(lines, LAMBDA l : Split(l) # <<>> /\ Split(l)[1] = key)

\* the lines `grep key file` prints: those that contain key, in file order
Grep(key, lines) == SelectSeq(lines, LAMBDA l : Contains(l, key))

\* .decode().split() of grep's output: the tokens of the printed lines
RECURSIVE TokensOf(_)
TokensOf(lines) ==
    IF lines = <<>> THEN <<>> ELSE Split(Head(lines)) \o TokensOf(Tail(lines))

\* int(subp.check_output(['grep', key, parfile]).decode().split()[1].strip())
\* Num(n), or the exception raised: grep exits 1 when no line matches
GrepInt(key, lines) ==
    LET out == Grep(key, lines)
        toks == TokensOf(out)
    IN  IF out = <<>> THEN <<"CalledProcessError">>
        ELSE IF Len(toks) < 2 THEN <<"IndexError">>
        ELSE ParseInt(toks[2])

\* Faulty variant of GetWidthLength: a file holding both pairs is refused.
GetWidthLengthExactlyOne(lines) ==
    LET w1 == GrepInt("width", lines)
        l1 == GrepInt("nlines", lines)
        w2 == GrepInt("range_samples", lines)
        l2 == GrepInt("azimuth_lines", lines)
        eqa == IsNum(w1) /\ IsNum(l1)
        slc == IsNum(w2) /\ IsNum(l2)
    IN  IF eqa /\ ~slc
        THEN [ok |-> TRUE, width |-> Val(w1), length |-> Val(l1),
              widthKey |-> "width", lengthKey |-> "nlines"]
        ELSE IF slc /\ ~eqa
        THEN [ok |-> TRUE, width |-> Val(w2), length |-> Val(l2),
              widthKey |-> "range_samples", lengthKey |-> "azimuth_lines"]
        ELSE [ok |-> FALSE, width |-> 0, length |-> 0,
              widthKey |-> "", lengthKey |-> ""]

\* Faulty variant of GetWidthLength: the fallback re-reads only the length
\* when the width of the first pair was found.
GetWidthLengthKeepWidth(lines) ==
    LET w1 == GrepInt("width", lines)
        l1 == GrepInt("nlines", lines)
        w2 == GrepInt("range_samples", lines)
        l2 == GrepInt("azimuth_lines", lines)
    IN  IF IsNum(w1) /\ IsNum(l1)
        THEN [ok |-> TRUE, width |-> Val(w1), length |-> Val(l1),
              widthKey |-> "width", lengthKey |-> "nlines"]
        ELSE IF IsNum(w1) /\ IsNum(l2)
        THEN [ok |-> TRUE, width |-> Val(w1), length |-> Val(l2),
              widthKey |-> "width", lengthKey |-> "azimuth_lines"]
        ELSE IF IsNum(w2) /\ IsNum(l2)
        THEN [ok |-> TRUE, width |-> Val(w2), length |-> Val(l2),
              widthKey |-> "range_samples", lengthKey |-> "azimuth_lines"]
        ELSE [ok |-> FALSE, width |-> 0, length |-> 0,
              widthKey |-> "", lengthKey |-> ""]

\* Faulty variant of GetWidthLength: the second pair is read crosswise.
GetWidthLengthCrossed(lines) ==
    LET w1 == GrepInt("width", lines)
        l1 == GrepInt("nlines", lines)
        w2 == GrepInt("azimuth_lines", lines)
        l2 == GrepInt("range_samples", lines)
    IN  IF IsNum(w1) /\ IsNum(l1)
        THEN [ok |-> TRUE, width |-> Val(w1), length |-> Val(l1),
              widthKey |-> "width", lengthKey |-> "nlines"]
        ELSE IF IsNum(w2) /\ IsNum(l2)
        THEN [ok |-> TRUE, width |-> Val(w2), length |-> Val(l2),
              widthKey |-> "range_samples", lengthKey |-> "azimuth_lines"]
        ELSE [ok |-> FALSE, width |-> 0, length |-> 0,
              widthKey |-> "", lengthKey |-> ""]

\* lines 130-137: [ok, width, length, keys]
GetWidthLength(lines) ==
    LET w1 == GrepInt("width", lines)
        l1 == GrepInt("nlines", lines)
        w2 == GrepInt("range_samples", lines)
        l2 == GrepInt("azimuth_lines", lines)
    IN  IF IsNum(w1) /\ IsNum(l1)
        THEN [ok |-> TRUE, width |-> Val(w1), length |-> Val(l1),
              widthKey |-> "width", lengthKey |-> "nlines"]
        ELSE IF IsNum(w2) /\ IsNum(l2)
        THEN [ok |-> TRUE, width |-> Val(w2), length |-> Val(l2),
              widthKey |-> "range_samples", lengthKey |-> "azimuth_lines"]
        ELSE [ok |-> FALSE, width |-> 0, length |-> 0,
              widthKey |-> "", lengthKey |-> ""]

NoFieldsMessage(path) ==
    "No fields about width/length found in " \o path \o "!"

GetInfo ==
    /\ pc = "GetInfo"
    /\ LET r == GetWidthLength(ReadLines(parfile))
       IN  IF r.ok
           THEN /\ width' = r.width
                /\ length' = r.length
                /\ widthKey' = r.widthKey
                /\ lengthKey' = r.lengthKey
                /\ pc' = "ReadData"
                /\ UNCHANGED <<exitCode, exitAt, stdout, stderr>>
           ELSE /\ Exit(ExitUsage, <<>>, <<NoFieldsMessage(parfile)>>)
                /\ UNCHANGED <<width, length, widthKey, lengthKey>>
    /\ UNCHANGED <<argv, parText, imgFile, infile, parfile, cmap, cmin, cmax,
                   auto_crange, cycle, endian, pngname, data, raw, pctCalls,
                   figure, saved, shown>>

(***************************************************************************)
(* Read data (line 144).  io_lib.read_img is not part of the sources at    *)
(* hand: it is modelled from the specification's section 4.2 (width*length *)
(* samples in row-major order, a file that is too short is an error).  The *)
(* samples of a file are given as little-endian floats; what the same      *)
(* bytes are as big-endian floats is not determined by them here, so a     *)
(* big-endian read yields any samples.                                     *)
(***************************************************************************)
SampleValues == {0, -7 * Scale, 20 * Scale}
Samples == {NaN} \cup {Num(v) : v \in SampleValues}

SeqsOfLen(S, n) == [1..n -> S]

ReadSamples(path) == IF path = ImgPath THEN imgFile ELSE <<>>

ReadImg(file, len, wid, end) ==
    IF wid <= 0 \/ len <= 0 \/ Len(file) < wid * len
    THEN {<<"DataError">>}
    ELSE IF end = "little" THEN {SubSeq(file, 1, wid * len)}
    ELSE SeqsOfLen(Samples, wid * len)

ReadData ==
    /\ pc = "ReadData"
    /\ \E d \in ReadImg(ReadSamples(infile), length, width, endian) :
          IF d = <<"DataError">>
          THEN /\ Exit(ExitTraceback, <<>>, Traceback("DataError"))
               /\ UNCHANGED <<data, raw>>
          ELSE /\ data' = d
               /\ raw' = d
               /\ pc' = "PhaseWrap"
               /\ UNCHANGED <<exitCode, exitAt, stdout, stderr>>
    /\ UNCHANGED <<argv, parText, imgFile, infile, parfile, cmap, cmin, cmax,
                   auto_crange, cycle, endian, pngname, width, length,
                   widthKey, lengthKey, pctCalls, figure, saved, shown>>

(***************************************************************************)
(* Phase-wrap (lines 146-149).  A complex number is kept in polar form,    *)
(* [mag, arg], with arg any real: np.exp(1j*t) is [1, t].                  *)
(***************************************************************************)
\* x / y for y # 0, in fixed point
FDiv(x, y) == IF y > 0 THEN (x * Scale) \div y ELSE ((-x) * Scale) \div (-y)

Abs(x) == IF x < 0 THEN -x ELSE x

\* np.exp(1j * t)
CExpI(t) == [mag |-> Scale, arg |-> t]

\* z * c for a real c
CTimesReal(z, c) ==
    [mag |-> (z.mag * Abs(c)) \div Scale,
     arg |-> IF c < 0 THEN z.arg + Pi ELSE z.arg]

\* the representative of the angle t in (-pi, pi]
WrapAngle(t) ==
    LET r == t % (2 * Pi) IN IF r > Pi THEN r - 2 * Pi ELSE r

\* np.angle(z)
Angle(z) == IF z.mag = 0 THEN 0 ELSE WrapAngle(z.arg)

\* Faulty variant of WrapSample: the cycle multiplies the angle, not the
\* exponential: np.angle(np.exp(1j*(v/cycle)))*cycle.
WrapSampleRescaled(v, c) ==
    IF ~IsNum(v) \/ ~IsNum(c) \/ Val(c) = 0 THEN NaN
    ELSE Num((Angle(CExpI(FDiv(Val(v), Val(c)))) * Val(c)) \div Scale)

\* np.angle(np.exp(1j*(v/cycle))*cycle) for one sample v; a zero cycle
\* makes v/cycle infinite or NaN, and the exponential and the angle NaN
WrapSample(v, c) ==
    IF ~IsNum(v) \/ ~IsNum(c) \/ Val(c) = 0 THEN NaN
    ELSE Num(Angle(CTimesReal(CExpI(FDiv(Val(v), Val(c))), Val(c))))

\* Faulty variant of PhaseWrap: (-pi, pi) only fills in for a bound that
\* was not given.
PhaseWrapDefaultBounds ==
    /\ pc = "PhaseWrap"
    /\ IF cmap = "insar"
       THEN /\ data' = [i \in DOMAIN data |-> WrapSample(data[i], cycle)]
            /\ cmin' = IF cmin = None THEN Num(-Pi) ELSE cmin
            /\ cmax' = IF cmax = None THEN Num(Pi) ELSE cmax
       ELSE UNCHANGED <<data, cmin, cmax>>
    /\ pc' = "SetColorRange"
    /\ UNCHANGED <<argv, parText, imgFile, infile, parfile, cmap,
                   auto_crange, cycle, endian, pngname, width, length,
                   widthKey, lengthKey, raw, pctCalls, figure, stdout,
                   stderr, saved, shown, exitCode, exitAt>>

PhaseWrap ==
    /\ pc = "PhaseWrap"
    /\ IF cmap = "insar"
       THEN /\ data' = [i \in DOMAIN data |-> WrapSample(data[i], cycle)]
            /\ cmin' = Num(-Pi)
            /\ cmax' = Num(Pi)
       ELSE UNCHANGED <<data, cmin, cmax>>
    /\ pc' = "SetColorRange"
    /\ UNCHANGED <<argv, parText, imgFile, infile, parfile, cmap,
                   auto_crange, cycle, endian, pngname, width, length,
                   widthKey, lengthKey, raw, pctCalls, figure, stdout,
                   stderr, saved, shown, exitCode, exitAt>>

(***************************************************************************)
(* Set color range (lines 153-160).                                        *)
(***************************************************************************)
\* the values of the samples that are not NaN, in raster order
RECURSIVE Finite(_)
Finite(d) ==
    IF d = <<>> THEN <<>>
    ELSE IF IsNum(Head(d)) THEN <<Val(Head(d))>> \o Finite(Tail(d))
    ELSE Finite(Tail(d))

RECURSIVE Insert(_, _)
Insert(x, sorted) ==
    IF sorted = <<>> THEN <<x>>
    ELSE IF x <= Head(sorted) THEN <<x>> \o sorted
    ELSE <<Head(sorted)>> \o Insert(x, Tail(sorted))

RECURSIVE Sort(_)
Sort(xs) == IF xs = <<>> THEN <<>> ELSE Insert(Head(xs), Sort(Tail(xs)))

\* q percent of the way through the sorted values a (0 <= q <= 100, q in
\* fixed point), by linear interpolation between the two nearest ranks
Interpolate(a, q) ==
    LET pos == q * (Len(a) - 1)
        whole == 100 * Scale
        lo == pos \div whole
        hi == IF lo + 1 < Len(a) THEN lo + 1 ELSE lo
    IN  a[lo + 1] + ((a[hi + 1] - a[lo + 1]) * (pos % whole)) \div whole

\* np.nanpercentile(d, q): ValueError for q outside [0, 100], NaN when
\* every sample is NaN
NanPercentile(d, q) ==
    IF q < 0 \/ q > 100 * Scale THEN ValueError
    ELSE IF Finite(d) = <<>> THEN NaN
    ELSE Num(Interpolate(Sort(Finite(d)), q))

LowQ(p) == 100 * Scale - Val(p)
HighQ(p) == Val(p)

\* Faulty variant of ColorRange: the percentiles are computed only when
\* neither bound is given.
ColorRangeBothOrNone(lo, hi, d, p) ==
    LET auto == lo = None /\ hi = None
        newLo == IF auto THEN NanPercentile(d, LowQ(p)) ELSE lo
        newHi == IF auto /\ newLo # ValueError
                 THEN NanPercentile(d, HighQ(p)) ELSE hi
    IN  [cmin |-> newLo, cmax |-> newHi,
         calls |-> (IF auto THEN <<LowQ(p)>> ELSE <<>>)
                   \o (IF auto /\ newLo # ValueError
                       THEN <<HighQ(p)>> ELSE <<>>)]

\* Faulty variant of ColorRange: the two percentiles are exchanged.
ColorRangeExchanged(lo, hi, d, p) ==
    LET needLo == lo = None
        needHi == hi = None
        newLo == IF needLo THEN NanPercentile(d, HighQ(p)) ELSE lo
        newHi == IF needHi /\ newLo # ValueError
                 THEN NanPercentile(d, LowQ(p)) ELSE hi
    IN  [cmin |-> newLo, cmax |-> newHi,
         calls |-> (IF needLo THEN <<HighQ(p)>> ELSE <<>>)
                   \o (IF needHi /\ newLo # ValueError
                       THEN <<LowQ(p)>> ELSE <<>>)]

\* lines 153-160: [cmin, cmax, calls], a bound of ValueError where the call
\* raised (the calls after it are not made)
ColorRange(lo, hi, d, p) ==
    LET needLo == (lo = None /\ hi = None) \/ lo = None
        needHi == (lo = None /\ hi = None) \/ hi = None
        newLo == IF needLo THEN NanPercentile(d, LowQ(p)) ELSE lo
        newHi == IF needHi /\ newLo # ValueError
                 THEN NanPercentile(d, HighQ(p)) ELSE hi
    IN  [cmin |-> newLo, cmax |-> newHi,
         calls |-> (IF needLo THEN <<LowQ(p)>> ELSE <<>>)
                   \o (IF needHi /\ newLo # ValueError
                       THEN <<HighQ(p)>> ELSE <<>>)]

SetColorRange ==
    /\ pc = "SetColorRange"
    /\ LET r == ColorRange(cmin, cmax, data, auto_crange)
       IN  /\ pctCalls' = pctCalls \o r.calls
           /\ IF r.cmin = ValueError \/ r.cmax = ValueError
              THEN /\ Exit(ExitTraceback, <<>>, Traceback("ValueError"))
                   /\ UNCHANGED <<cmin, cmax>>
              ELSE /\ cmin' = r.cmin
                   /\ cmax' = r.cmax
                   /\ pc' = "PlotFigure"
                   /\ UNCHANGED <<exitCode, exitAt, stdout, stderr>>
    /\ UNCHANGED <<argv, parText, imgFile, infile, parfile, cmap,
                   auto_crange, cycle, endian, pngname, width, length,
                   widthKey, lengthKey, data, raw, figure, saved, shown>>

(***************************************************************************)
(* Plot figure (lines 164-175); the script then ends, with status 0.       *)
(***************************************************************************)
FigsizeX(len, wid) == IF len > wid THEN 6 ELSE 8

Imshow(d, lo, hi, cm, len, wid) ==
    [data |-> d, clim |-> <<lo, hi>>, cmap |-> cm,
     colorbar |-> ~(cm = "insar"),
     figsize |-> <<FigsizeX(len, wid) * Scale,
                   ((FigsizeX(len, wid) - 2) * len * Scale) \div wid>>]

OutputMessage(name) == "\nOutput: " \o name \o "\n"

\* Faulty variant of PlotFigure: the figure is shown after it is saved.
PlotFigureSaveThenShow ==
    /\ pc = "PlotFigure"
    /\ figure' = Imshow(data, cmin, cmax, cmap, length, width)
    /\ IF pngname # ""
       THEN /\ saved' = Append(saved, [path |-> pngname, figure |-> figure'])
            /\ stdout' = Append(stdout, OutputMessage(pngname))
       ELSE UNCHANGED <<saved, stdout>>
    /\ shown' = Append(shown, figure')
    /\ pc' = "done"
    /\ exitCode' = <<ExitOk>>
    /\ UNCHANGED <<argv, parText, imgFile, infile, parfile, cmap, cmin, cmax,
                   auto_crange, cycle, endian, pngname, width, length,
                   widthKey, lengthKey, data, raw, pctCalls, stderr, exitAt>>

PlotFigure ==
    /\ pc = "PlotFigure"
    /\ figure' = Imshow(data, cmin, cmax, cmap, length, width)
    /\ IF pngname # ""
       THEN /\ saved' = Append(saved, [path |-> pngname, figure |-> figure'])
            /\ stdout' = Append(stdout, OutputMessage(pngname))
            /\ UNCHANGED shown
       ELSE /\ shown' = Append(shown, figure')
            /\ UNCHANGED <<saved, stdout>>
    /\ pc' = "done"
    /\ exitCode' = <<ExitOk>>
    /\ UNCHANGED <<argv, parText, imgFile, infile, parfile, cmap, cmin, cmax,
                   auto_crange, cycle, endian, pngname, width, length,
                   widthKey, lengthKey, data, raw, pctCalls, stderr, exitAt>>

(***************************************************************************)
(* The runs explored.  A command line is a choice for each option, in a    *)
(* fixed order; three families of runs vary the command line, the          *)
(* parameter file and the raster in turn.                                  *)
(***************************************************************************)
RECURSIVE Flatten(_)
Flatten(ss) == IF ss = <<>> THEN <<>> ELSE Head(ss) \o Flatten(Tail(ss))

RECURSIVE SeqsUpTo(_, _)
SeqsUpTo(S, n) ==
    IF n = 0 THEN {<<>>}
    ELSE SeqsUpTo(S, n - 1) \cup SeqsOfLen(S, n)

Required == <<"-i", ImgPath, "-p", ParPath>>

CliArgvs ==
    {Flatten(<<IF h = "first" THEN <<"-h">> ELSE <<>>, u, i, p, c, mn, mx,
               bad, IF h = "last" THEN <<"--help">> ELSE <<>>, png>>) :
        h \in {"none", "first", "last"},
        u \in {<<>>, <<"-x">>, <<"stray">>},
        i \in {<<>>, <<"-i", ImgPath>>, <<"-imissing.bin">>},
        p \in {<<>>, <<"-p", ParPath>>, <<"-p", "missing.par">>},
        c \in {<<>>, <<"-c", "insar">>, <<"--bigendian">>},
        mn \in {<<>>, <<"--cmin", "-1">>, <<"--cmin", "abc">>},
        mx \in {<<>>, <<"--cmax=2.5">>},
        bad \in {<<>>, <<"--auto_crange", "9x">>, <<"--cy", "">>},
        png \in {<<>>, <<"--png", "out.png">>, <<"--png", "">>, <<"--png">>}}

GivenMin == <<"--cmin", "-1">>
GivenMax == <<"--cmax", "2.5">>
Bounds == {<<>>, GivenMin, GivenMax, GivenMin \o GivenMax}

RangeArgvs ==
    {Required \o b : b \in Bounds}
    \cup {Required \o <<"--auto_crange", a>> :
            a \in {"0", "10", "50", "99.5", "100", "101", "-1"}}
    \cup {Required \o b \o <<"--auto_crange", "10">> :
            b \in {GivenMin, GivenMax}}

WrapArgvs ==
    {Required \o <<"-c", "insar">> \o b \o ac :
        b \in Bounds, ac \in {<<>>, <<"--auto_crange", "101">>}}
    \cup {Required \o <<"-c", "insar", "--cycle", a>> :
            a \in {"1", "0", "-2", "0.5"}}

ParLines ==
    {"width 2", "width:\t1", "nlines 1", "nlines x", "range_samples 2",
     "azimuth_lines 1", "chirp_bandwidth 1", "width", "post 7"}

\* parameter files of up to MaxLines lines, no line twice
ParTexts ==
    {t \in SeqsUpTo(ParLines, MaxLines) :
        \A i \in DOMAIN t, j \in DOMAIN t : t[i] = t[j] => i = j}

Images == SeqsUpTo(Samples, MaxSamples) \ {<<>>}

Decimal(n) == Char("0123456789", n + 1)

\* a parameter file for a raster of one row
OneRow(img) == <<"width " \o Decimal(Len(img)), "nlines 1">>

FourSamples == <<Num(0), Num(Scale), NaN, Num(-7 * Scale)>>

InitCli ==
    /\ argv \in CliArgvs
    /\ imgFile = <<Num(Scale)>>
    /\ parText = OneRow(imgFile)

InitPar ==
    /\ argv = Required \o <<"--png", "out.png">>
    /\ imgFile = FourSamples
    /\ parText \in ParTexts

InitData ==
    /\ argv \in RangeArgvs \cup WrapArgvs
    /\ imgFile \in Images
    /\ parText = OneRow(imgFile)

Init ==
    /\ InitCli \/ InitPar \/ InitData
    /\ pc = "ReadOptions"
    /\ infile = Defaults.infile
    /\ parfile = Defaults.parfile
    /\ cmap = Defaults.cmap
    /\ cmin = Defaults.cmin
    /\ cmax = Defaults.cmax
    /\ auto_crange = Defaults.auto_crange
    /\ cycle = Defaults.cycle
    /\ endian = Defaults.endian
    /\ pngname = Defaults.pngname
    /\ width = None
    /\ length = None
    /\ widthKey = ""
    /\ lengthKey = ""
    /\ data = <<>>
    /\ raw = <<>>
    /\ pctCalls = <<>>
    /\ figure = None
    /\ stdout = <<>>
    /\ stderr = <<>>
    /\ saved = <<>>
    /\ shown = <<>>
    /\ exitCode = <<>>
    /\ exitAt = ""

Next ==
    \/ ReadOptions
    \/ SetCmap
    \/ GetInfo
    \/ ReadData
    \/ PhaseWrap
    \/ SetColorRange
    \/ PlotFigure

Spec == Init /\ [][Next]_vars

(***************************************************************************)
(* Properties.                                                             *)
(***************************************************************************)
\* what the command line gave for an option: its arguments, in order
OptArgs(o) == SelectSeq(Getopt(argv).opts, LAMBDA x : x[1] = o)
IsGiven(o) == OptArgs(o) # <<>>
GivenFloat(o) == ParseFloat(OptArgs(o)[Len(OptArgs(o))][2])

Rendered == pc = "done"
PhaseWrapActive == cmap = "insar"
PastPhaseWrap == pc \in {"SetColorRange", "PlotFigure", "done"}
HelpHint == "\nFor help, use -h or --help.\n"

\* C1: in a run with the colormap insar, the bounds that reach the
\* rendering are exactly (-pi, pi), whatever --cmin, --cmax and
\* --auto_crange were, and no percentile is computed.
C1_InsarBoundsArePi ==
    PhaseWrapActive =>
        /\ pc \in {"PlotFigure", "done"} =>
              cmin = Num(-Pi) /\ cmax = Num(Pi) /\ pctCalls = <<>>
        /\ Rendered => figure.clim = <<Num(-Pi), Num(Pi)>>
        /\ exitAt # "SetColorRange"

\* C1 happens: an insar run given both bounds and an unusable percentile
\* is rendered.
C1_Witness ==
    /\ Rendered
    /\ PhaseWrapActive
    /\ IsGiven("--cmin")
    /\ IsGiven("--cmax")
    /\ Val(auto_crange) > 100 * Scale

\* C2: a run that option reading cuts short either printed the help and
\* ended with status 0, or printed the error and the help hint to the
\* error stream and ended with status 2.
C2_UsageErrorsExitTwo ==
    exitAt = "ReadOptions" =>
        \/ exitCode = <<ExitOk>> /\ stdout = <<HelpText>> /\ stderr = <<>>
        \/ /\ exitCode = <<ExitUsage>>
           /\ Len(stderr) = 3
           /\ stderr[1] = "\nERROR:"
           /\ stderr[3] = HelpHint

\* C6: without the phase-wrap, each bound that reaches the rendering is
\* the one given on the command line, or else the percentile of the
\* loaded data (100 - p for cmin, p for cmax); the percentiles computed
\* are exactly those of the bounds not given.
C6_BoundsIndependent ==
    (Rendered /\ ~PhaseWrapActive) =>
        /\ figure.clim[1] =
              IF IsGiven("--cmin") THEN GivenFloat("--cmin")
              ELSE NanPercentile(raw, 100 * Scale - Val(auto_crange))
        /\ figure.clim[2] =
              IF IsGiven("--cmax") THEN GivenFloat("--cmax")
              ELSE NanPercentile(raw, Val(auto_crange))
        /\ pctCalls =
              (IF IsGiven("--cmin") THEN <<>>
               ELSE <<100 * Scale - Val(auto_crange)>>)
              \o (IF IsGiven("--cmax") THEN <<>> ELSE <<Val(auto_crange)>>)

\* C6 happens: a rendered run with cmin given and cmax left to the
\* percentile rule.
C6_Witness ==
    /\ Rendered
    /\ ~PhaseWrapActive
    /\ IsGiven("--cmin")
    /\ ~IsGiven("--cmax")
    /\ IsNum(figure.clim[2])
    /\ Len(pctCalls) = 1

\* C8: a run performs exactly one terminal output action when it is
\* rendered and none otherwise: the export to the --png path with the
\* confirmation naming it, or else the display; never both.
C8_OneTerminalAction ==
    /\ Len(saved) + Len(shown) = IF Rendered THEN 1 ELSE 0
    /\ (Rendered /\ pngname # "") =>
          /\ Len(saved) = 1
          /\ saved[1].path = pngname
          /\ saved[1].figure = figure
          /\ stdout = <<OutputMessage(pngname)>>
    /\ (Rendered /\ pngname = "") =>
          /\ shown = <<figure>>
          /\ stdout = <<>>
    /\ pc = "exit" => saved = <<>> /\ shown = <<>>

\* C8 happens: a rendered run that exported its figure.
C8_Witness ==
    /\ Rendered
    /\ IsGiven("--png")
    /\ Len(saved) = 1
    /\ shown = <<>>

(***************************************************************************)
(* Properties of the parameter extraction.  Two readings of "the file      *)
(* holds a key": a line whose first token is the key (KeyLine), and the    *)
(* text of the key anywhere in a line (Holding).                           *)
(***************************************************************************)
\* the states right after Get info: the dimensions are about to be used for
\* the load, or the run was cut short there
Extracted == pc = "ReadData"
ExtractionFailed == exitAt = "GetInfo"
PastGetInfo == Extracted \/ ExtractionFailed

KeyTexts == {"width", "nlines", "range_samples", "azimuth_lines"}
Dims == {1, 2}

KeyLine(key, i) ==
    Len(Split(parText[i])) >= 2 /\ Split(parText[i])[1] = key

\* a line "key v" with the integer v
Carries(key, v) ==
    \E i \in DOMAIN parText :
        KeyLine(key, i) /\ ParseInt(Split(parText[i])[2]) = Num(v)

Present(key) ==
    \E i \in DOMAIN parText :
        KeyLine(key, i) /\ IsNum(ParseInt(Split(parText[i])[2]))

EqaPresent == Present("width") /\ Present("nlines")
SlcPresent == Present("range_samples") /\ Present("azimuth_lines")

\* the lines that hold the text of key, and the least of a set of them
Holding(key) == {i \in DOMAIN parText : Contains(parText[i], key)}
Least(S) == CHOOSE i \in S : \A j \in S : i <= j

\* the second token of the lines holding key, read in file order ("" when
\* they have fewer than two tokens); a line that holds key has a token
SecondToken(key) ==
    LET H == Holding(key)
    IN  IF H = {} THEN ""
        ELSE IF Len(Split(parText[Least(H)])) >= 2
        THEN Split(parText[Least(H)])[2]
        ELSE IF H \ {Least(H)} = {} THEN ""
        ELSE Split(parText[Least(H \ {Least(H)})])[1]

Found(key) == IsNum(ParseInt(SecondToken(key)))
EqaFound == Found("width") /\ Found("nlines")
SlcFound == Found("range_samples") /\ Found("azimuth_lines")

FailureReported ==
    /\ exitCode = <<ExitUsage>>
    /\ stderr = <<"No fields about width/length found in " \o parfile \o "!">>
    /\ parfile = ParPath

\* C3, as stated: the extraction succeeds exactly when one pair, and not
\* the other, is found with integer values; otherwise the run ends with
\* status 2 and the message naming the file.
C3_ExactlyOnePair ==
    PastGetInfo =>
        /\ Extracted <=> (EqaFound # SlcFound)
        /\ ExtractionFailed => FailureReported

\* C3, amended: the extraction succeeds exactly when the second token of
\* grep's output is an integer for width and nlines, or else for
\* range_samples and azimuth_lines; the first pair wins when both are
\* found; otherwise the run ends with status 2 and the message.
C3_AtLeastOnePair ==
    PastGetInfo =>
        /\ Extracted <=> (EqaFound \/ SlcFound)
        /\ Extracted => (widthKey = "width" <=> EqaFound)
        /\ ExtractionFailed => FailureReported
        /\ ~(Extracted /\ ExtractionFailed)

\* C3 happens: a file with both pairs is accepted.
C3_Witness ==
    /\ Extracted
    /\ EqaPresent
    /\ SlcPresent
    /\ widthKey = "width"

\* the file is of one style: it carries (w, l) under the keys k1, k2 and
\* the other pair is not present
ValidWith(k1, k2, w, l, otherPresent) ==
    Carries(k1, w) /\ Carries(k2, l) /\ ~otherPresent

\* C4, as stated: a valid file carrying (w, l) in either style yields
\* (width, length) = (w, l), whatever its other lines.
C4_SameFromEitherStyle ==
    PastGetInfo =>
        \A w \in Dims, l \in Dims :
            (\/ ValidWith("width", "nlines", w, l, SlcPresent)
             \/ ValidWith("range_samples", "azimuth_lines", w, l, EqaPresent))
            => (Extracted /\ width = w /\ length = l)

\* the lines of the pair k1, k2 are the only ones holding a key text
OnlyPair(k1, k2, w, l) ==
    /\ Carries(k1, w)
    /\ Carries(k2, l)
    /\ \A i \in DOMAIN parText :
          (\E k \in KeyTexts : Contains(parText[i], k)) =>
              \/ KeyLine(k1, i) /\ ParseInt(Split(parText[i])[2]) = Num(w)
              \/ KeyLine(k2, i) /\ ParseInt(Split(parText[i])[2]) = Num(l)

\* C4, amended: the two styles yield the same (w, l) provided no other
\* line of the file holds the text of one of the four keys.
C4_SameWhenNoOtherKeyText ==
    PastGetInfo =>
        \A w \in Dims, l \in Dims :
            (\/ OnlyPair("width", "nlines", w, l)
             \/ OnlyPair("range_samples", "azimuth_lines", w, l))
            => (Extracted /\ width = w /\ length = l)

\* C4 happens: the second style, among other lines, gives (2, 1), the pair
\* the first style can carry too.
C4_Witness ==
    /\ Extracted
    /\ OnlyPair("range_samples", "azimuth_lines", 2, 1)
    /\ \E i \in DOMAIN parText : parText[i] = "post 7"
    /\ Len(parText) >= 3

Swap(seq, i, j) ==
    [k \in DOMAIN seq |-> IF k = i THEN seq[j] ELSE IF k = j THEN seq[i]
                          ELSE seq[k]]

OrderMatters ==
    \E i \in DOMAIN parText, j \in DOMAIN parText :
        LET r == GetWidthLength(Swap(parText, i, j))
        IN  \/ r.ok # Extracted
            \/ Extracted /\ (r.width # width \/ r.length # length)

\* C9, as stated: each dimension is the second token of a line whose first
\* token is the key, and the order of the lines does not matter.
C9_FirstTokenIsKey ==
    PastGetInfo =>
        /\ Extracted => Carries(widthKey, width) /\ Carries(lengthKey, length)
        /\ ~OrderMatters

\* C9, amended: each dimension is the second token of grep's output: of
\* the lines that hold the key text anywhere, in file order.
C9_SecondTokenOfGrep ==
    Extracted =>
        /\ ParseInt(SecondToken(widthKey)) = Num(width)
        /\ ParseInt(SecondToken(lengthKey)) = Num(length)

\* C9 happens: the width comes from a line that holds the key text inside
\* another token, and another order of the lines gives another result.
C9_Witness ==
    /\ Extracted
    /\ widthKey = "width"
    /\ ~KeyLine("width", Least(Holding("width")))
    /\ ~Carries("width", width)
    /\ OrderMatters

\* C10: width and length come from the same pair; a width of the first
\* pair whose nlines is missing or no integer is dropped for the second.
C10_SamePair ==
    Extracted =>
        /\ <<widthKey, lengthKey>> \in
              {<<"width", "nlines">>, <<"range_samples", "azimuth_lines">>}
        /\ ParseInt(SecondToken(widthKey)) = Num(width)
        /\ ParseInt(SecondToken(lengthKey)) = Num(length)
        /\ (Found("width") /\ ~Found("nlines")) =>
              widthKey = "range_samples" /\ lengthKey = "azimuth_lines"

\* C10 happens: the raster is loaded with the second pair although the
\* first pair's width was found, with another value.
C10_Witness ==
    /\ Extracted
    /\ Found("width")
    /\ ~Found("nlines")
    /\ widthKey = "range_samples"
    /\ ParseInt(SecondToken("width")) # Num(width)

(***************************************************************************)
(* Properties of the phase-wrap and of the colour range.                   *)
(***************************************************************************)
\* the angle v / c of a sample, and whether the wrap moved it
RawAngle(i) == FDiv(Val(raw[i]), Val(cycle))

\* C7, as stated: a sample v becomes wrap(v / c) * c.
C7_WrapThenRescale ==
    (PastPhaseWrap /\ PhaseWrapActive) =>
        \A i \in DOMAIN raw :
            (IsNum(raw[i]) /\ Val(cycle) # 0) =>
                data[i] = Num((WrapAngle(RawAngle(i)) * Val(cycle)) \div Scale)

\* C7, amended: a sample v becomes the angle of c * exp(i v/c): for c > 0
\* the wrapped angle wrap(v / c) itself, not multiplied by c; for c < 0
\* the wrapped angle of v/c + pi; NaN for a NaN sample or c = 0.
C7_WrappedAngleOnly ==
    (PastPhaseWrap /\ PhaseWrapActive) =>
        /\ Len(data) = Len(raw)
        /\ \A i \in DOMAIN raw :
              /\ (~IsNum(raw[i]) \/ Val(cycle) = 0) => data[i] = NaN
              /\ (IsNum(raw[i]) /\ Val(cycle) > 0) =>
                    data[i] = Num(WrapAngle(RawAngle(i)))
              /\ (IsNum(raw[i]) /\ Val(cycle) < 0) =>
                    data[i] = Num(WrapAngle(RawAngle(i) + Pi))
              /\ IsNum(data[i]) => -Pi < Val(data[i]) /\ Val(data[i]) <= Pi

\* C7 happens: with a cycle above 1, a sample whose angle lies outside
\* (-pi, pi] is wrapped.
C7_Witness ==
    /\ PastPhaseWrap
    /\ PhaseWrapActive
    /\ Val(cycle) > Scale
    /\ \E i \in DOMAIN raw :
          /\ IsNum(raw[i])
          /\ RawAngle(i) > Pi
          /\ data[i] = Num(RawAngle(i) - 2 * Pi)

\* both bounds are left to the percentile rule, and some sample is a number
AutoRange ==
    /\ Rendered
    /\ ~PhaseWrapActive
    /\ ~IsGiven("--cmin")
    /\ ~IsGiven("--cmax")
    /\ \E i \in DOMAIN data : IsNum(data[i])

WithinData(b) ==
    /\ IsNum(b)
    /\ \E i \in DOMAIN data : IsNum(data[i]) /\ Val(data[i]) <= Val(b)
    /\ \E i \in DOMAIN data : IsNum(data[i]) /\ Val(b) <= Val(data[i])

\* C5, as stated: for every raster and every percentile p the bounds lie
\* within the range of the non-NaN samples, and cmin <= cmax.
C5_OrderedWithinData ==
    AutoRange =>
        /\ WithinData(figure.clim[1])
        /\ WithinData(figure.clim[2])
        /\ Val(figure.clim[1]) <= Val(figure.clim[2])

\* C5, amended: the bounds lie within the range of the non-NaN samples
\* for every p the run accepts, and cmin <= cmax for p >= 50.
C5_OrderedFromFifty ==
    AutoRange =>
        /\ WithinData(figure.clim[1])
        /\ WithinData(figure.clim[2])
        /\ Val(auto_crange) >= 50 * Scale =>
              Val(figure.clim[1]) <= Val(figure.clim[2])
        /\ (\A i \in DOMAIN data : data[i] = Num(0)) =>
              figure.clim = <<Num(0), Num(0)>>

\* C5 happens: with the default percentile, a raster of a NaN and two
\* distinct numbers gets bounds strictly apart and strictly inside.
C5_Witness ==
    /\ AutoRange
    /\ ~IsGiven("--auto_crange")
    /\ \E i \in DOMAIN data : data[i] = NaN
    /\ Val(figure.clim[1]) < Val(figure.clim[2])
    /\ \E i \in DOMAIN data :
          IsNum(data[i]) /\ Val(data[i]) < Val(figure.clim[1])

=============================================================================
